---- MODULE Spec2Model ----
(***************************************************************************)
(* A model of uGit (src/ugit): the object store, the ref store with        *)
(* symbolic refs, the working tree, the history walk and the commands      *)
(* init, commit, checkout, tag, branch, reset, merge, fetch and push.      *)
(*                                                                         *)
(* Text is modelled by its tokens: a line is the sequence of its           *)
(* space-separated words, a payload the sequence of its lines.  A ref      *)
(* file holds <<oid>> or <<"ref:", refname>>.  An object file holds        *)
(* <<type, payload>>, the two sides of its NUL byte.  Python's None is     *)
(* the string "None".                                                      *)
(***************************************************************************)
EXTENDS Integers, Sequences, FiniteSets, TLC

VARIABLES
    objects,    \* objects[d]: the files of d/.ugit/objects, oid -> <<type, payload>>
    refs,       \* refs[d]: the ref files of d/.ugit, refname -> tokens
    files,      \* files[d]: the working tree of d, path -> contents
    last        \* the last command run: its arguments and how it ended

vars == <<objects, refs, files, last>>

(***************************************************************************)
(* Bounds of the model.                                                    *)
(***************************************************************************)
\* No commit is made in a repository that already holds this many commits.
MaxCommits == 3
\* The interpreter's recursion limit, counted in nested __get_ref_internal calls.
RecursionLimit == 4

\* The two repository directories; each is the other's remote.
Dirs == {"a", "b"}

None == "None"
Truthy(v) == v # None /\ v # ""

\* Branch names the user types, and the tag names.
Names == {"main", "dev"}
TagNames == {"dev"}
\* Further names the user passes where a commit is expected.
RefArgs == {"@", "heads/main"}
\* A well-formed object id that no store holds.
StrayOid == "0000"
\* Commit messages.
Messages == {"m1"}
\* Working-tree paths (sequences of segments) and file contents (payloads).
Paths == {<<"d", "g">>}
Contents == {<<<<"x">>>>}
\* sorted() on the entry names of the model.
NameOrder == <<"d", "g">>

\* The words of the model that are not 40 hex digits.
Words == Names \cup RefArgs \cup {"HEAD", "MERGE_HEAD", None}

(***************************************************************************)
(* Text helpers.                                                           *)
(***************************************************************************)
RECURSIVE Join(_, _)
Join(seq, sep) ==
    IF seq = <<>> THEN ""
    ELSE IF Len(seq) = 1 THEN seq[1]
    ELSE seq[1] \o sep \o Join(Tail(seq), sep)

\* The text of a payload: words joined by spaces, every line ended by a newline.
RECURSIVE Text(_)
Text(lines) ==
    IF lines = <<>> THEN ""
    ELSE Join(lines[1], " ") \o "\n" \o Text(Tail(lines))

Range(f) == {f[x] : x \in DOMAIN f}

(***************************************************************************)
(* data.py: the object store.                                              *)
(***************************************************************************)
\* hashlib.sha1(obj).hexdigest(): an injective name of the bytes.
sha1(obj) == obj[1] \o "{" \o Text(obj[2]) \o "}"

\* len(name) == 40 and all hex digits.
IsHex40(name) == name \notin Words

hash_object(objs, data, type) ==
    LET obj == <<type, data>>
        oid == sha1(obj)
    IN  [oid |-> oid, objs |-> (oid :> obj) @@ objs]

object_exists(objs, oid) == oid \in DOMAIN objs

get_object(objs, oid, expected) ==
    IF oid \notin DOMAIN objs
    THEN [ok |-> FALSE, err |-> "FileNotFoundError", content |-> <<>>]
    ELSE IF expected # None /\ objs[oid][1] # expected
    THEN [ok |-> FALSE, err |-> "AssertionError", content |-> <<>>]
    ELSE [ok |-> TRUE, err |-> "", content |-> objs[oid][2]]

(***************************************************************************)
(* data.py: the ref store.                                                 *)
(***************************************************************************)
RefValue(symbolic, value) == [symbolic |-> symbolic, value |-> value]

\* Returns the ref reached and its value; depth counts the nested calls.
RECURSIVE _get_ref_internal(_, _, _, _)
_get_ref_internal(rs, ref, deref, depth) ==
    IF depth > RecursionLimit
    THEN [ok |-> FALSE, err |-> "RecursionError", ref |-> ref,
          val |-> RefValue(FALSE, None)]
    ELSE LET isfile == ref \in DOMAIN rs
             symbolic == isfile /\ rs[ref] # <<>> /\ rs[ref][1] = "ref:"
             value == IF ~isfile \/ rs[ref] = <<>> THEN None
                      ELSE IF symbolic THEN rs[ref][2]
                      ELSE rs[ref][1]
         IN  IF symbolic /\ deref
             THEN _get_ref_internal(rs, value, TRUE, depth + 1)
             ELSE [ok |-> TRUE, err |-> "", ref |-> ref,
                   val |-> RefValue(symbolic, value)]

get_ref(rs, ref, deref) == _get_ref_internal(rs, ref, deref, 1)

\* The tokens update_ref writes for a RefValue.
RefText(value) ==
    IF value.symbolic THEN <<"ref:", value.value>> ELSE <<value.value>>

update_ref(rs, ref, value, deref) ==
    LET r == _get_ref_internal(rs, ref, deref, 1)
    IN  IF ~r.ok THEN [ok |-> FALSE, err |-> r.err, refs |-> rs]
        ELSE IF ~Truthy(value.value)
        THEN [ok |-> FALSE, err |-> "AssertionError", refs |-> rs]
        ELSE [ok |-> TRUE, err |-> "", refs |-> (r.ref :> RefText(value)) @@ rs]

\* os.remove(f'{GIT_DIR/{ref}}') divides a str by a set: TypeError, no file removed.
delete_ref(rs, ref, deref) ==
    LET r == _get_ref_internal(rs, ref, deref, 1)
    IN  IF ~r.ok THEN [ok |-> FALSE, err |-> r.err, refs |-> rs]
        ELSE [ok |-> FALSE, err |-> "TypeError", refs |-> rs]

(***************************************************************************)
(* base.py: trees and the working tree.                                    *)
(***************************************************************************)
\* The names os.scandir(directory) lists, sorted.
EntryNames(fs, directory) ==
    LET n == Len(directory)
        under == {p \in DOMAIN fs : Len(p) > n /\ SubSeq(p, 1, n) = directory}
    IN  SelectSeq(NameOrder, LAMBDA name : \E p \in under : p[n + 1] = name)

RECURSIVE write_tree(_, _, _)
RECURSIVE write_tree_entries(_, _, _, _, _)
\* The loop over the entries: the objects written so far and the tree's lines.
write_tree_entries(objs, fs, directory, names, lines) ==
    IF names = <<>> THEN [objs |-> objs, lines |-> lines]
    ELSE LET name == names[1]
             full == directory \o <<name>>
             sub == IF full \in DOMAIN fs
                    THEN hash_object(objs, fs[full], "blob")
                    ELSE write_tree(objs, fs, full)
             type_ == IF full \in DOMAIN fs THEN "blob" ELSE "tree"
         IN  write_tree_entries(sub.objs, fs, directory, Tail(names),
                                Append(lines, <<type_, sub.oid, name>>))

write_tree(objs, fs, directory) ==
    LET e == write_tree_entries(objs, fs, directory,
                                EntryNames(fs, directory), <<>>)
    IN  hash_object(e.objs, e.lines, "tree")

\* entry.split(' ', 2) of every line of the tree.
_iter_tree_entries(objs, oid) ==
    IF ~Truthy(oid) THEN [ok |-> TRUE, err |-> "", entries |-> <<>>]
    ELSE LET tree == get_object(objs, oid, "tree")
         IN  IF ~tree.ok THEN [ok |-> FALSE, err |-> tree.err, entries |-> <<>>]
             ELSE IF \E i \in 1..Len(tree.content) : Len(tree.content[i]) < 3
             THEN [ok |-> FALSE, err |-> "ValueError", entries |-> <<>>]
             ELSE [ok |-> TRUE, err |-> "",
                   entries |-> [i \in 1..Len(tree.content) |->
                       LET l == tree.content[i]
                       IN  <<l[1], l[2], Join(SubSeq(l, 3, Len(l)), " ")>>]]

RECURSIVE get_tree(_, _, _)
RECURSIVE get_tree_entries(_, _, _, _)
\* The loop over the entries: result is the dict as <<path, oid>> pairs in order.
get_tree_entries(objs, entries, base_path, result) ==
    IF entries = <<>> THEN [ok |-> TRUE, err |-> "", result |-> result]
    ELSE LET type_ == entries[1][1]
             oid == entries[1][2]
             name == entries[1][3]
             path == base_path \o <<name>>
         IN  IF name \in {".", ".."}
             THEN [ok |-> FALSE, err |-> "AssertionError", result |-> result]
             ELSE IF type_ = "blob"
             THEN get_tree_entries(objs, Tail(entries), base_path,
                                   Append(result, <<path, oid>>))
             ELSE IF type_ = "tree"
             THEN LET sub == get_tree(objs, oid, path)
                  IN  IF ~sub.ok THEN sub
                      ELSE get_tree_entries(objs, Tail(entries), base_path,
                                            result \o sub.result)
             ELSE [ok |-> FALSE, err |-> "AssertionError", result |-> result]

get_tree(objs, oid, base_path) ==
    LET e == _iter_tree_entries(objs, oid)
    IN  IF ~e.ok THEN [ok |-> FALSE, err |-> e.err, result |-> <<>>]
        ELSE get_tree_entries(objs, e.entries, base_path, <<>>)

\* Every file of the model's working tree is removed (none is ignored).
_empty_current_directory(fs) == <<>>

\* The loop of read_tree: the files written until a blob cannot be read.
RECURSIVE read_tree_write(_, _, _)
read_tree_write(objs, fs, items) ==
    IF items = <<>> THEN [ok |-> TRUE, err |-> "", files |-> fs]
    ELSE LET blob == get_object(objs, items[1][2], "blob")
         IN  IF ~blob.ok THEN [ok |-> FALSE, err |-> blob.err, files |-> fs]
             ELSE read_tree_write(objs, (items[1][1] :> blob.content) @@ fs,
                                  Tail(items))

read_tree(objs, fs, tree_oid) ==
    LET emptied == _empty_current_directory(fs)
        tree == get_tree(objs, tree_oid, <<>>)
    IN  IF ~tree.ok THEN [ok |-> FALSE, err |-> tree.err, files |-> emptied]
        ELSE read_tree_write(objs, emptied, tree.result)

(***************************************************************************)
(* base.py: commits.                                                       *)
(***************************************************************************)
\* commit() without its `if HEAD:` branch: no parent line for HEAD.
CommitLines_no_parent(tree, HEAD, MERGE_HEAD, message) ==
    <<<<"tree", tree>>>>
    \o (IF Truthy(MERGE_HEAD) THEN <<<<"parent", MERGE_HEAD>>, <<")">>>>
        ELSE <<<<>>>>)
    \o <<<<>>, <<message>>>>

\* The lines commit() builds: tree, parent HEAD, parent MERGE_HEAD followed
\* by the line ")", the line its '\n' ends, a blank line, the message.
CommitLines(tree, HEAD, MERGE_HEAD, message) ==
    <<<<"tree", tree>>>>
    \o (IF Truthy(HEAD) THEN <<<<"parent", HEAD>>>> ELSE <<>>)
    \o (IF Truthy(MERGE_HEAD) THEN <<<<"parent", MERGE_HEAD>>, <<")">>>>
        ELSE <<<<>>>>)
    \o <<<<>>, <<message>>>>

\* The header loop of get_commit over the lines before the first empty one.
RECURSIVE get_commit_headers(_, _, _)
get_commit_headers(lines, tree, parents) ==
    IF lines = <<>> \/ lines[1] = <<>>
    THEN IF tree = None
         THEN [ok |-> FALSE, err |-> "UnboundLocalError", tree |-> None,
               parents |-> parents, rest |-> <<>>]
         ELSE [ok |-> TRUE, err |-> "", tree |-> tree, parents |-> parents,
               rest |-> IF lines = <<>> THEN <<>> ELSE Tail(lines)]
    ELSE LET line == lines[1]
             key == line[1]
             value == Join(Tail(line), " ")
         IN  IF Len(line) < 2
             THEN [ok |-> FALSE, err |-> "ValueError", tree |-> tree,
                   parents |-> parents, rest |-> <<>>]
             ELSE IF key = "tree"
             THEN get_commit_headers(Tail(lines), value, parents)
             ELSE IF key = "parent"
             THEN get_commit_headers(Tail(lines), tree, Append(parents, value))
             ELSE [ok |-> FALSE, err |-> "AssertionError", tree |-> tree,
                   parents |-> parents, rest |-> <<>>]

get_commit(objs, oid) ==
    LET commit == get_object(objs, oid, "commit")
    IN  IF ~commit.ok
        THEN [ok |-> FALSE, err |-> commit.err, tree |-> None,
              parents |-> <<>>, message |-> ""]
        ELSE LET h == get_commit_headers(commit.content, None, <<>>)
             IN  [ok |-> h.ok, err |-> h.err, tree |-> h.tree,
                  parents |-> h.parents,
                  message |-> Join([i \in 1..Len(h.rest) |->
                                       Join(h.rest[i], " ")], "\n")]

\* get_ref(f'refs/heads/{branch}').value is not None
is_branch(rs, branch) ==
    LET r == get_ref(rs, "refs/heads/" \o branch, TRUE)
    IN  [ok |-> r.ok, err |-> r.err, is |-> r.val.value # None]

(***************************************************************************)
(* base.py: the name resolver.                                             *)
(***************************************************************************)
refs_to_try(name) ==
    <<name, "refs/" \o name, "refs/tags/" \o name, "refs/tags/" \o name>>

\* The loop of get_oid over refs_to_try.
RECURSIVE get_oid_try(_, _)
get_oid_try(rs, try) ==
    IF try = <<>> THEN [found |-> FALSE, ok |-> TRUE, err |-> "", oid |-> None]
    ELSE IF Truthy(get_ref(rs, try[1], FALSE).val.value)
    THEN LET r == get_ref(rs, try[1], TRUE)
         IN  [found |-> TRUE, ok |-> r.ok, err |-> r.err, oid |-> r.val.value]
    ELSE get_oid_try(rs, Tail(try))

get_oid(rs, arg) ==
    LET name == IF arg = "@" THEN "HEAD" ELSE arg
        t == get_oid_try(rs, refs_to_try(name))
    IN  IF t.found THEN [ok |-> t.ok, err |-> t.err, oid |-> t.oid]
        ELSE IF IsHex40(name) THEN [ok |-> TRUE, err |-> "", oid |-> name]
        ELSE [ok |-> FALSE, err |-> "AssertionError", oid |-> None]

(***************************************************************************)
(* base.py: the history walk.  A generator is the sequence it yields (out) *)
(* and whether it then raised (ok, err); its consumer acts at each yield.  *)
(***************************************************************************)
\* The walks that only list: their consumer copies nothing.
NoRemote == [fetch |-> FALSE, objs |-> <<>>]

\* A consumer that raises after the first object it had to copy.
Yield_one_copy(w, oid, remote) ==
    IF ~remote.fetch \/ object_exists(w.objs, oid)
    THEN [w EXCEPT !.out = Append(@, oid)]
    ELSE IF oid \in DOMAIN remote.objs
    THEN [w EXCEPT !.out = Append(@, oid),
                   !.objs = (oid :> remote.objs[oid]) @@ @,
                   !.ok = FALSE, !.err = "StopIteration"]
    ELSE [w EXCEPT !.out = Append(@, oid), !.ok = FALSE,
                   !.err = "FileNotFoundError"]

\* The consumer at a yield.  In fetch it is data.fetch_objects_if_missing:
\* the object is copied from the remote store unless the local one has it.
Yield(w, oid, remote) ==
    IF ~remote.fetch \/ object_exists(w.objs, oid)
    THEN [w EXCEPT !.out = Append(@, oid)]
    ELSE IF oid \in DOMAIN remote.objs
    THEN [w EXCEPT !.out = Append(@, oid),
                   !.objs = (oid :> remote.objs[oid]) @@ @]
    ELSE [w EXCEPT !.out = Append(@, oid), !.ok = FALSE,
                   !.err = "FileNotFoundError"]

\* commit.parents[:1]
FirstParent(parents) ==
    IF parents = <<>> THEN <<>> ELSE <<parents[1]>>

\* What the deque gets after a commit is yielded: extendleft, then extend.
ExtendParents(oids, parents) ==
    FirstParent(parents) \o oids \o FirstParent(parents)

RECURSIVE iter_commits_and_parents_loop(_, _, _, _)
RECURSIVE iter_commits_and_parents_extend(_, _, _, _, _)
\* After the yield of oids[1]: the commit is read and the deque extended.
iter_commits_and_parents_extend(w, commit, oids, visited, remote) ==
    IF ~w.ok THEN w
    ELSE IF ~commit.ok THEN [w EXCEPT !.ok = FALSE, !.err = commit.err]
    ELSE iter_commits_and_parents_loop(w,
             ExtendParents(Tail(oids), commit.parents),
             visited \cup {oids[1]}, remote)

\* w is the walk after the yield of oids[1].
iter_commits_and_parents_yield(w, oids, visited, remote) ==
    iter_commits_and_parents_extend(w, get_commit(w.objs, oids[1]), oids,
                                    visited, remote)

iter_commits_and_parents_loop(w, oids, visited, remote) ==
    IF oids = <<>> \/ ~w.ok THEN w
    ELSE IF ~Truthy(oids[1]) \/ oids[1] \in visited
    THEN iter_commits_and_parents_loop(w, Tail(oids), visited, remote)
    ELSE iter_commits_and_parents_yield(Yield(w, oids[1], remote), oids,
                                        visited, remote)

iter_commits_and_parents(objs, oids) ==
    iter_commits_and_parents_loop(
        [objs |-> objs, out |-> <<>>, ok |-> TRUE, err |-> "", visited |-> {}],
        oids, {}, NoRemote)

RECURSIVE iter_objects_in_tree(_, _, _)
RECURSIVE iter_objects_in_tree_loop(_, _, _)
\* The loop over the entries <<type, oid, name>> of one tree; w.visited is
\* the walk's visited set.
iter_objects_in_tree_loop(w, entries, remote) ==
    IF entries = <<>> \/ ~w.ok THEN w
    ELSE IF entries[1][2] \in w.visited
    THEN iter_objects_in_tree_loop(w, Tail(entries), remote)
    ELSE IF entries[1][1] = "tree"
    THEN iter_objects_in_tree_loop(
             iter_objects_in_tree(w, entries[1][2], remote), Tail(entries),
             remote)
    ELSE iter_objects_in_tree_loop(
             Yield([w EXCEPT !.visited = @ \cup {entries[1][2]}],
                   entries[1][2], remote),
             Tail(entries), remote)

\* After the yield of the tree: e is what _iter_tree_entries read.
iter_objects_in_tree_entries(w, e, remote) ==
    IF ~w.ok THEN w
    ELSE IF ~e.ok THEN [w EXCEPT !.ok = FALSE, !.err = e.err]
    ELSE iter_objects_in_tree_loop(w, e.entries, remote)

\* w is the walk after the yield of the tree oid.
iter_objects_in_tree_yield(w, oid, remote) ==
    iter_objects_in_tree_entries(w, _iter_tree_entries(w.objs, oid), remote)

\* A walk of a tree that reads its entries from the store as it is before
\* the yield.
iter_objects_in_tree_read_first(w, oid, remote) ==
    iter_objects_in_tree_entries(
        Yield([w EXCEPT !.visited = @ \cup {oid}], oid, remote),
        _iter_tree_entries(w.objs, oid), remote)

iter_objects_in_tree(w, oid, remote) ==
    iter_objects_in_tree_yield(
        Yield([w EXCEPT !.visited = @ \cup {oid}], oid, remote), oid, remote)

\* One loop for the two nested generators: the commit is yielded, its tree
\* is walked, and then the inner generator resumes and extends its deque.
RECURSIVE iter_objects_in_commits_loop(_, _, _, _)
RECURSIVE iter_objects_in_commits_extend(_, _, _, _, _)
\* w is the walk after the tree of commit oids[1].
iter_objects_in_commits_extend(w, commit, oids, visited, remote) ==
    IF ~w.ok THEN w
    ELSE iter_objects_in_commits_loop(w,
             ExtendParents(Tail(oids), commit.parents),
             visited \cup {oids[1]}, remote)

\* After the yield of oids[1]: the commit is read and its tree walked.
iter_objects_in_commits_tree(w, commit, oids, visited, remote) ==
    IF ~w.ok THEN w
    ELSE IF ~commit.ok THEN [w EXCEPT !.ok = FALSE, !.err = commit.err]
    ELSE iter_objects_in_commits_extend(
             IF commit.tree \notin w.visited
             THEN iter_objects_in_tree(w, commit.tree, remote) ELSE w,
             commit, oids, visited, remote)

\* w is the walk after the yield of oids[1].
iter_objects_in_commits_yield(w, oids, visited, remote) ==
    iter_objects_in_commits_tree(w, get_commit(w.objs, oids[1]), oids,
                                 visited, remote)

iter_objects_in_commits_loop(w, oids, visited, remote) ==
    IF oids = <<>> \/ ~w.ok THEN w
    ELSE IF ~Truthy(oids[1]) \/ oids[1] \in visited
    THEN iter_objects_in_commits_loop(w, Tail(oids), visited, remote)
    ELSE iter_objects_in_commits_yield(Yield(w, oids[1], remote), oids,
                                       visited, remote)

iter_objects_in_commits(objs, oids, remote) ==
    iter_objects_in_commits_loop(
        [objs |-> objs, out |-> <<>>, ok |-> TRUE, err |-> "", visited |-> {}],
        oids, {}, remote)

\* The first element of seq that is in set, or None.
RECURSIVE FirstIn(_, _)
FirstIn(seq, set) ==
    IF seq = <<>> THEN None
    ELSE IF seq[1] \in set THEN seq[1]
    ELSE FirstIn(Tail(seq), set)

\* get_merge_base returning the start of the second walk without the
\* membership test.
get_merge_base_of_untested(walk1, walk2) ==
    IF ~walk1.ok THEN [ok |-> FALSE, err |-> walk1.err, oid |-> None]
    ELSE IF walk2.out # <<>>
    THEN [ok |-> TRUE, err |-> "", oid |-> walk2.out[1]]
    ELSE [ok |-> walk2.ok, err |-> walk2.err, oid |-> None]

\* get_merge_base on its two walks: the set of the first, the loop over the
\* second.
get_merge_base_of(walk1, walk2) ==
    IF ~walk1.ok THEN [ok |-> FALSE, err |-> walk1.err, oid |-> None]
    ELSE IF FirstIn(walk2.out, Range(walk1.out)) # None
    THEN [ok |-> TRUE, err |-> "",
          oid |-> FirstIn(walk2.out, Range(walk1.out))]
    ELSE [ok |-> walk2.ok, err |-> walk2.err, oid |-> None]

get_merge_base(objs, oid1, oid2) ==
    get_merge_base_of(iter_commits_and_parents(objs, <<oid1>>),
                      iter_commits_and_parents(objs, <<oid2>>))

\* An ancestry test that finds every commit an ancestor.
is_ascestor_in_any(walk, maybe_ascestor) ==
    [ok |-> TRUE, err |-> "", is |-> TRUE]

\* `maybe_ascestor in walk`: the walk stops at the first match.
is_ascestor_in(walk, maybe_ascestor) ==
    IF maybe_ascestor \in Range(walk.out)
    THEN [ok |-> TRUE, err |-> "", is |-> TRUE]
    ELSE [ok |-> walk.ok, err |-> walk.err, is |-> FALSE]

is_ascestor_of(objs, commit, maybe_ascestor) ==
    is_ascestor_in(iter_commits_and_parents(objs, <<commit>>), maybe_ascestor)

(***************************************************************************)
(* base.py: the commands.  Each returns how it ended and the files it      *)
(* left: an exception keeps what was written before it.                    *)
(***************************************************************************)
init(rs) ==
    update_ref(rs, "HEAD", RefValue(TRUE, "refs/heads/main"), TRUE)

commit(objs, rs, fs, message) ==
    LET tree == write_tree(objs, fs, <<>>)
        HEAD == get_ref(rs, "HEAD", TRUE)
        MERGE_HEAD == get_ref(rs, "MERGE_HEAD", TRUE)
        merging == Truthy(MERGE_HEAD.val.value)
        del == delete_ref(rs, "MERGE_HEAD", FALSE)
        rs1 == IF merging THEN del.refs ELSE rs
        new == hash_object(tree.objs,
                   CommitLines(tree.oid, HEAD.val.value,
                               MERGE_HEAD.val.value, message), "commit")
        upd == update_ref(rs1, "HEAD", RefValue(FALSE, new.oid), TRUE)
        Raise(err, os, r) ==
            [ok |-> FALSE, err |-> err, oid |-> None, objs |-> os, refs |-> r]
    IN  IF ~HEAD.ok THEN Raise(HEAD.err, tree.objs, rs)
        ELSE IF ~MERGE_HEAD.ok THEN Raise(MERGE_HEAD.err, tree.objs, rs)
        ELSE IF merging /\ ~del.ok THEN Raise(del.err, tree.objs, rs)
        ELSE IF ~upd.ok THEN Raise(upd.err, new.objs, rs1)
        ELSE [ok |-> TRUE, err |-> "", oid |-> new.oid, objs |-> new.objs,
              refs |-> upd.refs]

\* How checkout ends when it raises: HEAD as it was, the working tree left.
checkout_raise(err, rs, fs) ==
    [ok |-> FALSE, err |-> err, oid |-> None, refs |-> rs, files |-> fs]

\* The end of checkout: tree is what read_tree did, upd the update_ref of
\* HEAD.
checkout_HEAD(rs, oid, tree, upd) ==
    [ok |-> upd.ok, err |-> upd.err, oid |-> oid, refs |-> upd.refs,
     files |-> tree.files]

\* checkout once the tree is read: is_branch, then update_ref.
checkout_tree(rs, name, oid, tree, branch) ==
    IF ~tree.ok THEN checkout_raise(tree.err, rs, tree.files)
    ELSE IF ~branch.ok THEN checkout_raise(branch.err, rs, tree.files)
    ELSE checkout_HEAD(rs, oid, tree,
             update_ref(rs, "HEAD",
                 IF branch.is THEN RefValue(TRUE, "refs/heads/" \o name)
                 ELSE RefValue(FALSE, oid), FALSE))

\* checkout once the commit is read.
checkout_commit(objs, rs, fs, name, oid, c) ==
    IF ~c.ok THEN checkout_raise(c.err, rs, fs)
    ELSE checkout_tree(rs, name, oid, read_tree(objs, fs, c.tree),
                       is_branch(rs, name))

\* checkout once the name is resolved.
checkout_oid(objs, rs, fs, name, oid) ==
    IF ~oid.ok THEN checkout_raise(oid.err, rs, fs)
    ELSE checkout_commit(objs, rs, fs, name, oid.oid,
                         get_commit(objs, oid.oid))

checkout(objs, rs, fs, name) ==
    checkout_oid(objs, rs, fs, name, get_oid(rs, name))

created_tag(rs, name, oid) ==
    update_ref(rs, "refs/tags/" \o name, RefValue(FALSE, oid), TRUE)

create_branch(rs, name, oid) ==
    update_ref(rs, "refs/heads/" \o name, RefValue(FALSE, oid), TRUE)

reset(rs, oid) ==
    update_ref(rs, "HEAD", RefValue(FALSE, oid), TRUE)

\* A path with a segment .ugit, .git or .venv.
is_ignored(path) ==
    \E i \in 1..Len(path) : path[i] \in {".ugit", ".git", ".venv"}

\* The loop of get_working_tree over the files os.walk lists: every file
\* that is not ignored is passed to data.hash_object, which stores the blob.
\* result is the dict, as a function from paths to oids.
RECURSIVE get_working_tree_loop(_, _, _, _)
get_working_tree_loop(objs, fs, paths, result) ==
    IF paths = {} THEN [objs |-> objs, result |-> result]
    ELSE LET path == CHOOSE p \in paths : TRUE
             blob == hash_object(objs, fs[path], "blob")
         IN  IF is_ignored(path)
             THEN get_working_tree_loop(objs, fs, paths \ {path}, result)
             ELSE get_working_tree_loop(blob.objs, fs, paths \ {path},
                                        (path :> blob.oid) @@ result)

get_working_tree(objs, fs) ==
    get_working_tree_loop(objs, fs, DOMAIN fs, <<>>)

\* diff.merge_trees gets the third tree as dict_items, and compare_trees calls
\* .items() on it: AttributeError once the three trees are read.
merge_trees(t_base, t_HEAD, t_other) ==
    [ok |-> FALSE, err |-> "AttributeError", tree |-> <<>>]

\* read_tree_merged once the directory is emptied and the three trees read.
read_tree_merged_of(emptied, base, HEAD, other) ==
    IF ~base.ok THEN [ok |-> FALSE, err |-> base.err, files |-> emptied]
    ELSE IF ~HEAD.ok THEN [ok |-> FALSE, err |-> HEAD.err, files |-> emptied]
    ELSE IF ~other.ok
    THEN [ok |-> FALSE, err |-> other.err, files |-> emptied]
    ELSE [ok |-> merge_trees(base.result, HEAD.result, other.result).ok,
          err |-> merge_trees(base.result, HEAD.result, other.result).err,
          files |-> emptied]

read_tree_merged(objs, fs, t_base, t_HEAD, t_other) ==
    read_tree_merged_of(_empty_current_directory(fs),
        get_tree(objs, t_base, <<>>), get_tree(objs, t_HEAD, <<>>),
        get_tree(objs, t_other, <<>>))

\* How merge ends when it raises: the refs and the working tree it leaves.
merge_raise(err, rs, fs) ==
    [ok |-> FALSE, err |-> err, refs |-> rs, files |-> fs, ff |-> FALSE]

\* The fast-forward: tree is what read_tree(c_other.tree) did, upd what
\* update_ref('HEAD', other) does after it.
merge_fast_forward(rs, tree, upd) ==
    IF ~tree.ok THEN merge_raise(tree.err, rs, tree.files)
    ELSE IF ~upd.ok THEN merge_raise(upd.err, rs, tree.files)
    ELSE [ok |-> TRUE, err |-> "", refs |-> upd.refs, files |-> tree.files,
          ff |-> TRUE]

\* The end of the three-way merge: merged is what read_tree_merged did.
merge_merged(rs, merged) ==
    IF ~merged.ok THEN merge_raise(merged.err, rs, merged.files)
    ELSE [ok |-> TRUE, err |-> "", refs |-> rs, files |-> merged.files,
          ff |-> FALSE]

\* The three-way merge: upd is what update_ref('MERGE_HEAD', other) did.
merge_three_way(objs, fs, upd, c_base, c_HEAD, t_other) ==
    IF ~upd.ok THEN merge_raise(upd.err, upd.refs, fs)
    ELSE IF ~c_base.ok THEN merge_raise(c_base.err, upd.refs, fs)
    ELSE IF ~c_HEAD.ok THEN merge_raise(c_HEAD.err, upd.refs, fs)
    ELSE merge_merged(upd.refs,
             read_tree_merged(objs, fs, c_base.tree, c_HEAD.tree, t_other))

\* merge from the value of HEAD, the merge base and the other commit.
merge_from(objs, rs, fs, other, HEAD, merge_base, c_other) ==
    IF ~merge_base.ok THEN merge_raise(merge_base.err, rs, fs)
    ELSE IF ~c_other.ok THEN merge_raise(c_other.err, rs, fs)
    ELSE IF merge_base.oid = HEAD
    THEN merge_fast_forward(rs, read_tree(objs, fs, c_other.tree),
             update_ref(rs, "HEAD", RefValue(FALSE, other), TRUE))
    ELSE merge_three_way(objs, fs,
             update_ref(rs, "MERGE_HEAD", RefValue(FALSE, other), TRUE),
             get_commit(objs, merge_base.oid), get_commit(objs, HEAD),
             c_other.tree)

\* merge once HEAD is read.
merge_at(objs, rs, fs, other, HEAD) ==
    IF ~HEAD.ok THEN merge_raise(HEAD.err, rs, fs)
    ELSE IF ~Truthy(HEAD.val.value) THEN merge_raise("AssertionError", rs, fs)
    ELSE merge_from(objs, rs, fs, other, HEAD.val.value,
             get_merge_base(objs, other, HEAD.val.value),
             get_commit(objs, other))

merge(objs, rs, fs, other) ==
    merge_at(objs, rs, fs, other, get_ref(rs, "HEAD", TRUE))

(***************************************************************************)
(* data.iter_refs and remote.py.                                           *)
(***************************************************************************)
REMOTE_REFS_BASE == "refs/heads/"
\* A base that puts the mirrored refs among the local branches.
LOCAL_REFS_BASE_heads == "refs/heads/"
LOCAL_REFS_BASE == "refs/remote/"

\* The order os.walk lists the files under refs/ in.
NamesOrder == <<"dev", "main">>
RefsWalk ==
    [i \in 1..Len(NamesOrder) |-> "refs/heads/" \o NamesOrder[i]]
    \o [i \in 1..Len(NamesOrder) |-> "refs/remote/" \o NamesOrder[i]]
    \o [i \in 1..Len(NamesOrder) |-> "refs/tags/" \o NamesOrder[i]]

\* refname.startswith(prefix), for the prefixes the code passes.
StartsWith(refname, prefix) ==
    prefix = "" \/ \E n \in Names : refname = prefix \o n

\* os.path.relpath(refname, base) of a refname under base.
RelPath(refname, base) == CHOOSE n \in Names : refname = base \o n

\* The loop of iter_refs: the <<refname, value>> pairs yielded so far.
RECURSIVE iter_refs_loop(_, _, _, _)
RECURSIVE iter_refs_ref(_, _, _, _, _)
\* ref is what get_ref(names[1]) returned.
iter_refs_ref(rs, names, deref, out, ref) ==
    IF ~ref.ok THEN [ok |-> FALSE, err |-> ref.err, refs |-> out]
    ELSE iter_refs_loop(rs, Tail(names), deref,
             IF Truthy(ref.val.value)
             THEN Append(out, <<names[1], ref.val.value>>) ELSE out)

iter_refs_loop(rs, names, deref, out) ==
    IF names = <<>> THEN [ok |-> TRUE, err |-> "", refs |-> out]
    ELSE iter_refs_ref(rs, names, deref, out, get_ref(rs, names[1], deref))

iter_refs(rs, prefix, deref) ==
    LET listed == <<"HEAD", "MERGE_HEAD">>
                  \o SelectSeq(RefsWalk, LAMBDA r : r \in DOMAIN rs)
    IN  iter_refs_loop(rs, SelectSeq(listed, LAMBDA r : StartsWith(r, prefix)),
                       deref, <<>>)

\* Run with GIT_DIR set to the remote: rs is the remote's ref store.
_get_remote_refs(rs, prefix) == iter_refs(rs, prefix, TRUE)

\* The process-wide GIT_DIR a command starts with: cli.main runs every
\* command inside change_git_dir('.').
CWD_GIT_DIR == "./.ugit"

\* data.GIT_DIR when a `with change_git_dir(new_dir)` block entered with
\* GIT_DIR = old_dir is left.  The generator has no try/finally: the line
\* after its yield runs only when the block ends without an exception
\* (returned); an exception thrown into the generator at the yield leaves
\* it at once.
change_git_dir(old_dir, new_dir, returned) ==
    IF returned THEN old_dir ELSE new_dir \o "/.ugit"

\* The remote_path argument of fetch and push.
remote_path == "remote_path"

\* dict.values() and dict.get() of the <<refname, value>> pairs.
Values(pairs) == [i \in 1..Len(pairs) |-> pairs[i][2]]
Get(pairs, key) ==
    IF \E i \in 1..Len(pairs) : pairs[i][1] = key
    THEN pairs[CHOOSE i \in 1..Len(pairs) : pairs[i][1] = key][2]
    ELSE None

\* The second loop of fetch: one update_ref per remote branch.  The file of
\* 'refs/remote//<name>' is refs/remote/<name>.
RECURSIVE fetch_update_refs(_, _)
RECURSIVE fetch_update_refs_next(_, _)
\* upd is what the update_ref of pairs[1] did.
fetch_update_refs_next(upd, pairs) ==
    IF ~upd.ok THEN upd ELSE fetch_update_refs(upd.refs, Tail(pairs))

fetch_update_refs(rs, pairs) ==
    IF pairs = <<>> THEN [ok |-> TRUE, err |-> "", refs |-> rs]
    ELSE fetch_update_refs_next(
             update_ref(rs,
                 LOCAL_REFS_BASE \o RelPath(pairs[1][1], REMOTE_REFS_BASE),
                 RefValue(FALSE, pairs[1][2]), TRUE),
             pairs)

\* The end of fetch: objs are the objects after the walk, upd is what the
\* second loop did.
fetch_updated(objs, upd) ==
    [ok |-> upd.ok, err |-> upd.err, objs |-> objs, refs |-> upd.refs,
     GIT_DIR |-> CWD_GIT_DIR]

\* fetch after its first loop: walk is the walk that copied the objects.
fetch_walked(rs, found, walk) ==
    IF ~walk.ok
    THEN [ok |-> FALSE, err |-> walk.err, objs |-> walk.objs, refs |-> rs,
          GIT_DIR |-> CWD_GIT_DIR]
    ELSE fetch_updated(walk.objs, fetch_update_refs(rs, found.refs))

\* fetch once the remote refs are read.
fetch_found(objs, rs, robjs, found) ==
    IF ~found.ok
    THEN [ok |-> FALSE, err |-> found.err, objs |-> objs, refs |-> rs,
          GIT_DIR |-> change_git_dir(CWD_GIT_DIR, remote_path, FALSE)]
    ELSE fetch_walked(rs, found,
             iter_objects_in_commits(objs, Values(found.refs),
                                     [fetch |-> TRUE, objs |-> robjs]))

\* objs, rs: the local repository; robjs, rrs: the one at remote_path.
fetch(objs, rs, robjs, rrs) ==
    fetch_found(objs, rs, robjs, _get_remote_refs(rrs, REMOTE_REFS_BASE))

\* A copy loop that leaves in the remote store only what it copied.
push_objects_only(objs, robjs, oids) ==
    [o \in oids \cap DOMAIN objs |-> objs[o]]

\* data.push_object of every oid of the set: the local files copied.
push_objects(objs, robjs, oids) ==
    [o \in (oids \cap DOMAIN objs) \cup DOMAIN robjs |->
        IF o \in oids \cap DOMAIN objs THEN objs[o] ELSE robjs[o]]

\* How push ends when it raises outside the two `with` blocks: the remote's
\* objects and refs it leaves.
push_raise(err, robjs, rrs) ==
    [ok |-> FALSE, err |-> err, robjs |-> robjs, rrefs |-> rrs,
     GIT_DIR |-> CWD_GIT_DIR]

\* The end of push: pushed are the remote's objects, upd is what the
\* update_ref in the remote did.
push_updated(pushed, upd) ==
    [ok |-> upd.ok, err |-> upd.err, robjs |-> pushed, rrefs |-> upd.refs,
     GIT_DIR |-> change_git_dir(CWD_GIT_DIR, remote_path, upd.ok)]

\* The copy loop of push and the update of the remote ref.
push_copy(objs, robjs, rrs, refname, local_ref, objects_to_push) ==
    IF ~(objects_to_push \subseteq DOMAIN objs)
    THEN push_raise("FileNotFoundError",
                    push_objects(objs, robjs, objects_to_push), rrs)
    ELSE push_updated(push_objects(objs, robjs, objects_to_push),
             update_ref(rrs, refname, RefValue(FALSE, local_ref), TRUE))

\* push once the two sets of objects are walked; known is the walk from the
\* remote refs (remote_objects), mine the walk from local_ref
\* (local_objects).
push_walked(objs, robjs, rrs, refname, local_ref, known, mine) ==
    IF ~known.ok THEN push_raise(known.err, robjs, rrs)
    ELSE IF ~mine.ok THEN push_raise(mine.err, robjs, rrs)
    ELSE push_copy(objs, robjs, rrs, refname, local_ref,
             Range(mine.out) \ Range(known.out))

\* push without its second assert.
push_asserted_unchecked(objs, robjs, rrs, refname, remote_refs, local_ref, ancestor) ==
    push_walked(objs, robjs, rrs, refname, local_ref,
        iter_objects_in_commits(objs,
            SelectSeq(Values(remote_refs),
                      LAMBDA o : object_exists(objs, o)), NoRemote),
        iter_objects_in_commits(objs, <<local_ref>>, NoRemote))

\* push from its second assert on: ancestor is what is_ascestor_of found.
push_asserted(objs, robjs, rrs, refname, remote_refs, local_ref, ancestor) ==
    IF remote_refs # <<>> /\ ~ancestor.ok
    THEN push_raise(ancestor.err, robjs, rrs)
    ELSE IF remote_refs # <<>> /\ ~ancestor.is
    THEN push_raise("AssertionError", robjs, rrs)
    ELSE push_walked(objs, robjs, rrs, refname, local_ref,
             iter_objects_in_commits(objs,
                 SelectSeq(Values(remote_refs),
                           LAMBDA o : object_exists(objs, o)), NoRemote),
             iter_objects_in_commits(objs, <<local_ref>>, NoRemote))

\* push once the remote refs and the local ref are read.
push_refs(objs, robjs, rrs, refname, remote_refs, local_ref) ==
    IF ~remote_refs.ok
    THEN [push_raise(remote_refs.err, robjs, rrs) EXCEPT
             !.GIT_DIR = change_git_dir(CWD_GIT_DIR, remote_path, FALSE)]
    ELSE IF ~local_ref.ok THEN push_raise(local_ref.err, robjs, rrs)
    ELSE IF ~Truthy(local_ref.val.value)
    THEN push_raise("AssertionError", robjs, rrs)
    ELSE push_asserted(objs, robjs, rrs, refname, remote_refs.refs,
             local_ref.val.value,
             is_ascestor_of(objs, local_ref.val.value,
                            Get(remote_refs.refs, refname)))

push(objs, rs, robjs, rrs, refname) ==
    push_refs(objs, robjs, rrs, refname, _get_remote_refs(rrs, ""),
              get_ref(rs, refname, TRUE))

(***************************************************************************)
(* cli.py: one action per command, run in directory d.  argparse resolves  *)
(* the arguments declared type=oid with get_oid before the command runs.   *)
(***************************************************************************)
Other(d) == CHOOSE r \in Dirs : r # d

Commits(objs) == {o \in DOMAIN objs : objs[o][1] = "commit"}

\* What the user types where a commit is expected: a name, or the id of a
\* commit of the store.
OidArgs(d) == Names \cup RefArgs \cup Commits(objects[d])

\* The record of a command: what ran where, how it ended, and the oid it
\* resolved or returned.
Done(op, d, ok, err, ret) ==
    [op |-> op, d |-> d, ok |-> ok, err |-> err, ret |-> ret]

\* A command leaves the files it wrote; last keeps the last command that
\* changed a file.
Run(done, objs, rs, fs) ==
    /\ objects' = objs
    /\ refs' = rs
    /\ files' = fs
    /\ last' = IF objs = objects /\ rs = refs /\ fs = files THEN last ELSE done

\* The user writes a file of the working tree.
Edit(d, path, content) ==
    /\ path \notin DOMAIN files[d]
    /\ files' = [files EXCEPT ![d] = (path :> content) @@ @]
    /\ UNCHANGED <<objects, refs, last>>

Init_(d) ==
    \E r \in {init(refs[d])} :
        Run(Done("init", d, r.ok, r.err, None),
            objects, [refs EXCEPT ![d] = r.refs], files)

Commit(d, message) ==
    /\ Cardinality(Commits(objects[d])) < MaxCommits
    /\ \E r \in {commit(objects[d], refs[d], files[d], message)} :
           Run(Done("commit", d, r.ok, r.err, r.oid),
               [objects EXCEPT ![d] = r.objs], [refs EXCEPT ![d] = r.refs],
               files)

Checkout(d, name) ==
    \E r \in {checkout(objects[d], refs[d], files[d], name)} :
        Run(Done("checkout", d, r.ok, r.err, r.oid),
            objects, [refs EXCEPT ![d] = r.refs],
            [files EXCEPT ![d] = r.files])

\* How a command ends whose argument get_oid could not resolve.
Unresolved(rs, oid) == [ok |-> FALSE, err |-> oid.err, refs |-> rs]

Tag(d, name, arg) ==
    \E oid \in {get_oid(refs[d], arg)} :
    \E r \in {IF oid.ok THEN created_tag(refs[d], name, oid.oid)
              ELSE Unresolved(refs[d], oid)} :
        Run(Done("tag", d, r.ok, r.err, oid.oid),
            objects, [refs EXCEPT ![d] = r.refs], files)

Branch(d, name, arg) ==
    \E oid \in {get_oid(refs[d], arg)} :
    \E r \in {IF oid.ok THEN create_branch(refs[d], name, oid.oid)
              ELSE Unresolved(refs[d], oid)} :
        Run(Done("branch", d, r.ok, r.err, oid.oid),
            objects, [refs EXCEPT ![d] = r.refs], files)

Reset(d, arg) ==
    \E oid \in {get_oid(refs[d], arg)} :
    \E r \in {IF oid.ok THEN reset(refs[d], oid.oid)
              ELSE Unresolved(refs[d], oid)} :
        Run(Done("reset", d, r.ok, r.err, oid.oid),
            objects, [refs EXCEPT ![d] = r.refs], files)

Merge(d, arg) ==
    \E oid \in {get_oid(refs[d], arg)} :
    \E r \in {IF oid.ok THEN merge(objects[d], refs[d], files[d], oid.oid)
              ELSE merge_raise(oid.err, refs[d], files[d])} :
        Run(Done("merge", d, r.ok, r.err, oid.oid),
            objects, [refs EXCEPT ![d] = r.refs],
            [files EXCEPT ![d] = r.files])

\* A command that reaches into the repository Other(d); last keeps it
\* however it ended.
RunRemote(done, objs, rs) ==
    /\ objects' = objs
    /\ refs' = rs
    /\ last' = done
    /\ UNCHANGED files

\* `ugit fetch <remote>` in d with the path of the other directory; last.ret
\* is the GIT_DIR the call leaves.
Fetch(d) ==
    \E r \in {fetch(objects[d], refs[d], objects[Other(d)], refs[Other(d)])} :
        RunRemote(Done("fetch", d, r.ok, r.err, r.GIT_DIR),
                  [objects EXCEPT ![d] = r.objs], [refs EXCEPT ![d] = r.refs])

\* `ugit push <remote> <branch>` in d; last.ret keeps the refname, what the
\* remote's refname resolved to before (was) and the GIT_DIR the call
\* leaves.
Push(d, branch) ==
    \E was \in {get_ref(refs[Other(d)], "refs/heads/" \o branch, TRUE)} :
    \E r \in {push(objects[d], refs[d], objects[Other(d)], refs[Other(d)],
                   "refs/heads/" \o branch)} :
        RunRemote(Done("push", d, r.ok, r.err,
                       [refname |-> "refs/heads/" \o branch,
                        was |-> IF was.ok THEN was.val.value ELSE None,
                        GIT_DIR |-> r.GIT_DIR]),
                  [objects EXCEPT ![Other(d)] = r.robjs],
                  [refs EXCEPT ![Other(d)] = r.rrefs])

(***************************************************************************)
(* The local commands, run in one repository.                              *)
(***************************************************************************)
\* The directory the user works in.
Work == "a"

\* Both directories after `ugit init`, with empty working trees.
Init ==
    /\ objects = [d \in Dirs |-> <<>>]
    /\ refs = [d \in Dirs |-> init(<<>>).refs]
    /\ files = [d \in Dirs |-> <<>>]
    /\ last = Done("init", Work, TRUE, "", None)

\* `ugit tag` and `ugit branch` are run with their default start point, '@'.
Next ==
    \/ \E path \in Paths, content \in Contents : Edit(Work, path, content)
    \/ Init_(Work)
    \/ \E message \in Messages : Commit(Work, message)
    \/ \E name \in OidArgs(Work) : Checkout(Work, name)
    \/ \E name \in TagNames : Tag(Work, name, "@")
    \/ \E name \in Names : Branch(Work, name, "@")
    \/ \E arg \in OidArgs(Work) : Reset(Work, arg)
    \/ \E arg \in OidArgs(Work) : Merge(Work, arg)

Spec == Init /\ [][Next]_vars

(***************************************************************************)
(* The commands that take a commit, run with whatever get_oid accepts:     *)
(* names, ids of stored commits, and a well-formed id no store holds.      *)
(***************************************************************************)
\* What may be typed where an object id is expected.
AnyArgs(d) == OidArgs(d) \cup {StrayOid}

NextArgs ==
    \/ \E path \in Paths, content \in Contents : Edit(Work, path, content)
    \/ \E message \in Messages : Commit(Work, message)
    \/ \E name \in AnyArgs(Work) : Checkout(Work, name)
    \/ \E name \in TagNames, arg \in AnyArgs(Work) : Tag(Work, name, arg)
    \/ \E name \in Names, arg \in AnyArgs(Work) : Branch(Work, name, arg)
    \/ \E arg \in AnyArgs(Work) : Reset(Work, arg)

SpecArgs == Init /\ [][NextArgs]_vars

(***************************************************************************)
(* Two repositories: the user works in Work and gives the path of the      *)
(* other directory to fetch and push; somebody else commits there and may  *)
(* run init there again.                                                   *)
(***************************************************************************)
NextRemote ==
    \/ \E path \in Paths, content \in Contents : Edit(Work, path, content)
    \/ \E d \in Dirs, message \in Messages : Commit(d, message)
    \/ \E name \in Names : Branch(Work, name, "@")
    \/ Init_(Other(Work))
    \/ Fetch(Work)
    \/ \E branch \in Names : Push(Work, branch)

SpecRemote == Init /\ [][NextRemote]_vars

(***************************************************************************)
(* The history walk on stores with merge commits.  commit() never writes   *)
(* a commit with two parents that get_commit can read back, so the stores  *)
(* are drawn from those another writer of the same format leaves: every    *)
(* commit has a tree written by write_tree and zero, one or two parents    *)
(* among the commits written before it.                                    *)
(***************************************************************************)
\* The stores hold at most this many commits.
HistCommits == 3

\* The working trees the commits of a store are made from.
HistFiles == {<<>>} \cup {(p :> c) : p \in Paths, c \in Contents}

\* A commit object as get_commit reads it: tree, parents, blank lines, message.
StoredCommit(tree, parents, message) ==
    <<<<"tree", tree>>>>
    \o [i \in 1..Len(parents) |-> <<"parent", parents[i]>>]
    \o <<<<>>, <<>>, <<message>>>>

\* The parent lists a new commit may have, given the commits written so far.
ParentLists(commits) ==
    {<<>>} \cup {<<c>> : c \in commits}
    \cup {p \in commits \X commits : p[1] # p[2]}

\* The store h after one more commit of the working tree fs.
AddCommit(h, fs, parents) ==
    LET tree == write_tree(h, fs, <<>>)
    IN  hash_object(tree.objs, StoredCommit(tree.oid, parents, "m1"),
                    "commit").objs

RECURSIVE HistStores(_)
HistStores(n) ==
    IF n = 0 THEN {<<>>}
    ELSE LET before == HistStores(n - 1)
         IN  before \cup
             UNION {{AddCommit(h, fs, parents) :
                        fs \in HistFiles, parents \in ParentLists(Commits(h))} :
                    h \in before}

InitHist ==
    /\ objects \in {[d \in Dirs |-> IF d = Work THEN h ELSE <<>>] :
                       h \in HistStores(HistCommits)}
    /\ refs = [d \in Dirs |-> init(<<>>).refs]
    /\ files = [d \in Dirs |-> <<>>]
    /\ last = Done("init", Work, TRUE, "", None)

\* A caller runs a walk to its end; last.ret is what the walk yielded.
Listed(op, d, walk) ==
    /\ last' = Done(op, d, walk.ok, walk.err, walk.out)
    /\ UNCHANGED <<objects, refs, files>>

IterCommitsAndParents(d, oid) ==
    Listed("iter_commits_and_parents", d,
           iter_commits_and_parents(objects[d], <<oid>>))

IterObjectsInCommits(d, oid) ==
    Listed("iter_objects_in_commits", d,
           iter_objects_in_commits(objects[d], <<oid>>, NoRemote))

GetMergeBase(d, oid1, oid2) ==
    LET r == get_merge_base(objects[d], oid1, oid2)
    IN  /\ last' = Done("get_merge_base", d, r.ok, r.err, <<oid1, oid2, r.oid>>)
        /\ UNCHANGED <<objects, refs, files>>

NextHist ==
    \/ \E oid \in Commits(objects[Work]) : IterCommitsAndParents(Work, oid)
    \/ \E oid \in Commits(objects[Work]) : IterObjectsInCommits(Work, oid)
    \/ \E oid1 \in Commits(objects[Work]), oid2 \in Commits(objects[Work]) :
           GetMergeBase(Work, oid1, oid2)

SpecHist == InitHist /\ [][NextHist]_vars

(***************************************************************************)
(* Transfers of a history with merge commits: Work holds one of the stores *)
(* above with its branch main reset to one of the commits, the other       *)
(* directory is a fresh repository.  Work pushes to it, and fetch is run   *)
(* there with the path of Work.                                            *)
(***************************************************************************)
InitHistRemote ==
    /\ objects \in {[d \in Dirs |-> IF d = Work THEN h ELSE <<>>] :
                       h \in HistStores(HistCommits)}
    /\ refs \in {[d \in Dirs |-> IF d = Work THEN reset(init(<<>>).refs, c).refs
                                  ELSE init(<<>>).refs] :
                    c \in Commits(objects[Work])}
    /\ files = [d \in Dirs |-> <<>>]
    /\ last = Done("reset", Work, TRUE, "", None)

NextHistRemote ==
    \/ \E branch \in Names : Push(Work, branch)
    \/ Fetch(Other(Work))

SpecHistRemote == InitHistRemote /\ [][NextHistRemote]_vars

(***************************************************************************)
(* Properties of the ref store.                                            *)
(***************************************************************************)
\* The ref a ref file names after "ref: ", or None.
Target(rs, ref) ==
    IF ref \in DOMAIN rs /\ rs[ref] # <<>> /\ rs[ref][1] = "ref:"
    THEN rs[ref][2] ELSE None

\* Following the targets from ref ends within the given number of steps.
RECURSIVE ChainEnds(_, _, _)
ChainEnds(rs, ref, steps) ==
    IF Target(rs, ref) = None THEN TRUE
    ELSE IF steps = 0 THEN FALSE
    ELSE ChainEnds(rs, Target(rs, ref), steps - 1)

\* The file of ref, or None.
File(rs, ref) == IF ref \in DOMAIN rs THEN rs[ref] ELSE None

\* C1: after any sequence of commands no chain of symbolic refs has a cycle:
\* from every ref file, following the `ref: ` targets reaches a direct value
\* or an absent ref in finitely many steps.
C1_NoSymbolicCycle ==
    \A d \in Dirs : \A ref \in DOMAIN refs[d] :
        ChainEnds(refs[d], ref, Cardinality(DOMAIN refs[d]))

\* C2: when HEAD is symbolic to refs/heads/x, update_ref(HEAD, oid) with
\* deref writes the direct value oid to refs/heads/x and leaves the HEAD
\* file symbolic to refs/heads/x.
C2_DerefWritesBranch ==
    \A d \in Dirs, x \in Names :
    \A oid \in Commits(objects[d]) \cup {StrayOid} :
        LET branch == "refs/heads/" \o x
            u == update_ref(refs[d], "HEAD", RefValue(FALSE, oid), TRUE)
        IN  File(refs[d], "HEAD") = <<"ref:", branch>>
            => /\ u.ok
               /\ File(u.refs, branch) = <<oid>>
               /\ File(u.refs, "HEAD") = <<"ref:", branch>>

\* C3: for any stored ref files get_ref with deref ends with a direct or
\* absent value, or fails with RefCycle.
C3_GetRefEndsOrRefCycle ==
    \A d \in Dirs : \A ref \in DOMAIN refs[d] :
        LET r == get_ref(refs[d], ref, TRUE)
        IN  \/ r.ok /\ ~r.val.symbolic
            \/ ~r.ok /\ r.err = "RefCycle"

(***************************************************************************)
(* Properties of commit and merge.                                         *)
(***************************************************************************)
\* The value HEAD resolves to.
HeadOid(rs) == get_ref(rs, "HEAD", TRUE).val.value

\* The repository has no commit yet and its refs are those init leaves.
Fresh(d) == objects[d] = <<>> /\ refs[d] = init(<<>>).refs

\* C4: the first commit of a freshly initialised repository has no parents;
\* of two consecutive commits with no MERGE_HEAD and no ref change between
\* them, the second has the first as parents[0], and HEAD resolves to the
\* second.
C4_CommitParents ==
    \A message \in Messages, fs \in HistFiles \cup {files[Work]} :
        LET first == commit(objects[Work], refs[Work], files[Work], message)
            second == commit(first.objs, first.refs, fs, message)
            c1 == get_commit(first.objs, first.oid)
            c2 == get_commit(second.objs, second.oid)
        IN  /\ Fresh(Work) => first.ok /\ c1.ok /\ c1.parents = <<>>
            /\ first.ok /\ File(first.refs, "MERGE_HEAD") = None
               => /\ second.ok /\ c2.ok
                  /\ c2.parents # <<>> /\ c2.parents[1] = first.oid
                  /\ HeadOid(second.refs) = second.oid

\* Two commits in a row were made: the last one has the one before it as
\* its parent and HEAD resolves to it.
C4_Witness ==
    /\ last.op = "commit" /\ last.ok
    /\ get_commit(objects[Work], last.ret).parents # <<>>
    /\ get_commit(objects[Work], last.ret).parents[1] \in Commits(objects[Work])
    /\ HeadOid(refs[Work]) = last.ret

\* C5: with HEAD at H and O diverged from H, merge(O) sets MERGE_HEAD to O;
\* the next commit succeeds, has the parents <<H, O>> and leaves MERGE_HEAD
\* absent.
C5_MergeThenCommit ==
    \A O \in Commits(objects[Work]), message \in Messages :
        LET H == HeadOid(refs[Work])
            base == get_merge_base(objects[Work], O, H)
            m == merge(objects[Work], refs[Work], files[Work], O)
            c == commit(objects[Work], m.refs, m.files, message)
        IN  /\ get_ref(refs[Work], "HEAD", TRUE).ok
            /\ H \in Commits(objects[Work])
            /\ File(refs[Work], "MERGE_HEAD") = None
            /\ base.ok /\ base.oid \notin {H, O}
            => /\ File(m.refs, "MERGE_HEAD") = <<O>>
               /\ c.ok
               /\ get_commit(c.objs, c.oid).ok
               /\ get_commit(c.objs, c.oid).parents = <<H, O>>
               /\ File(c.refs, "MERGE_HEAD") = None

\* C6: when the merge base of other and HEAD is HEAD's commit, merge(other)
\* succeeds as a fast-forward: HEAD resolves to other, MERGE_HEAD is as it
\* was, and a HEAD that was symbolic to a branch still is, the file of
\* that branch holding other.  (merge writes no object on this path.)
C6_FastForward ==
    \A other \in Commits(objects[Work]) :
        LET H == HeadOid(refs[Work])
            base == get_merge_base(objects[Work], other, H)
            m == merge(objects[Work], refs[Work], files[Work], other)
            branch == Target(refs[Work], "HEAD")
        IN  /\ get_ref(refs[Work], "HEAD", TRUE).ok
            /\ Truthy(H) /\ base.ok /\ base.oid = H
            => /\ m.ok /\ m.ff
               /\ HeadOid(m.refs) = other
               /\ File(m.refs, "MERGE_HEAD") = File(refs[Work], "MERGE_HEAD")
               /\ branch # None
                  => /\ File(m.refs, "HEAD") = <<"ref:", branch>>
                     /\ File(m.refs, branch) = <<other>>

(***************************************************************************)
(* Properties of checkout and of the name resolver.                        *)
(***************************************************************************)
\* The branches whose file holds a direct value.
Branches(rs) ==
    {x \in Names : File(rs, "refs/heads/" \o x) # None
                   /\ Target(rs, "refs/heads/" \o x) = None}

\* C7: checkout of an existing branch succeeds, leaves the HEAD file
\* symbolic to refs/heads/<name> and the branch ref as it was; a successful
\* checkout of any other name leaves the HEAD file direct, holding the
\* commit the name resolves to.
C7_Checkout ==
    \A name \in AnyArgs(Work) :
        LET r == checkout(objects[Work], refs[Work], files[Work], name)
            branch == "refs/heads/" \o name
        IN  IF name \in Branches(refs[Work])
            THEN /\ r.ok
                 /\ File(r.refs, "HEAD") = <<"ref:", branch>>
                 /\ File(r.refs, branch) = File(refs[Work], branch)
            ELSE r.ok /\ File(refs[Work], branch) = None
                 => File(r.refs, "HEAD") = <<get_oid(refs[Work], name).oid>>

\* The order the resolver is documented to try the refs in.
ResolveOrder(name) ==
    <<name, "refs/" \o name, "refs/tags/" \o name, "refs/heads/" \o name>>

\* C8: get_oid returns the value of the first of <name>, refs/<name>,
\* refs/tags/<name>, refs/heads/<name> that is set; if none is set, a
\* 40-hex-digit name is returned as it is, and any other name fails.
C8_ResolveOrder ==
    \A arg \in AnyArgs(Work) :
        LET name == IF arg = "@" THEN "HEAD" ELSE arg
            set == SelectSeq(ResolveOrder(name),
                       LAMBDA r : Truthy(get_ref(refs[Work], r, FALSE).val.value))
            g == get_oid(refs[Work], arg)
        IN  IF set # <<>>
            THEN get_ref(refs[Work], set[1], TRUE).ok
                 => g.ok /\ g.oid = get_ref(refs[Work], set[1], TRUE).val.value
            ELSE IF IsHex40(name) THEN g.ok /\ g.oid = name
            ELSE ~g.ok /\ g.err = "AssertionError"

\* C9: for every name get_oid returns a non-empty object id or fails.
C9_OidOrFailure ==
    \A arg \in AnyArgs(Work) :
        LET g == get_oid(refs[Work], arg)
        IN  g.ok => Truthy(g.oid)

(***************************************************************************)
(* Properties of the history walk.                                         *)
(***************************************************************************)
\* The object ids an object names: a commit's tree and parents, a tree's
\* entries.
Children(objs, oid) ==
    IF oid \notin DOMAIN objs \/ objs[oid][1] = "blob" THEN {}
    ELSE LET lines == objs[oid][2]
         IN  {lines[i][2] : i \in {i \in 1..Len(lines) : Len(lines[i]) >= 2}}

\* The closure of a set of object ids under Children.
RECURSIVE Closure(_, _)
Closure(objs, oids) ==
    LET more == oids \cup UNION {Children(objs, o) : o \in oids}
    IN  IF more = oids THEN oids ELSE Closure(objs, more)

\* C10: in a reachability-closed store iter_objects_in_commits({C}) yields
\* every object id of the closure of C: C, its tree with its subtrees and
\* blobs, and every ancestor through any parent edge with theirs.
C10_WalkYieldsClosure ==
    \A C \in Commits(objects[Work]) :
        LET walk == iter_objects_in_commits(objects[Work], <<C>>, NoRemote)
        IN  Closure(objects[Work], {C}) \subseteq DOMAIN objects[Work]
            => walk.ok /\ Closure(objects[Work], {C}) \subseteq Range(walk.out)

(***************************************************************************)
(* Properties of the ancestry tests.                                       *)
(***************************************************************************)
\* ancestors(c): c and every commit reachable from it through parent lines
\* of any position.
Ancestors(objs, c) == Closure(objs, {c}) \cap Commits(objs)

\* C11: is_ascestor_of(c, maybe) is true exactly when maybe is c or is
\* reachable from c through parent edges of any position, second parents
\* of merge commits included, and false otherwise.
C11_IsAncestorOf ==
    \A c \in Commits(objects[Work]) : \A maybe \in Commits(objects[Work]) :
        LET r == is_ascestor_of(objects[Work], c, maybe)
        IN  r.ok /\ (r.is <=> maybe \in Ancestors(objects[Work], c))

\* C12: whenever get_merge_base(a, b) returns an oid, it is an ancestor of
\* a and of b, each commit counting as its own ancestor; when a and b have
\* no common ancestor it returns None.
C12_MergeBaseIsCommonAncestor ==
    \A a \in Commits(objects[Work]) : \A b \in Commits(objects[Work]) :
        LET r == get_merge_base(objects[Work], a, b)
            common == Ancestors(objects[Work], a)
                      \cap Ancestors(objects[Work], b)
        IN  /\ r.ok
            /\ r.oid # None => r.oid \in common
            /\ common = {} => r.oid = None

\* get_merge_base has returned a commit that is neither of its arguments.
C12_Witness ==
    /\ last.op = "get_merge_base" /\ last.ok
    /\ last.ret[3] \in Commits(objects[Work]) \ {last.ret[1], last.ret[2]}
    /\ last.ret[3] = get_merge_base(objects[Work], last.ret[1],
                                    last.ret[2]).oid

(***************************************************************************)
(* Properties of push and fetch.                                           *)
(***************************************************************************)
\* The value a ref resolves to, or None when it has none or cannot be read.
Resolved(rs, ref) ==
    LET r == get_ref(rs, ref, TRUE)
    IN  IF r.ok /\ Truthy(r.val.value) THEN r.val.value ELSE None

\* `ugit push` of the branch from Work to the other directory.
PushOf(branch) ==
    push(objects[Work], refs[Work], objects[Other(Work)], refs[Other(Work)],
         "refs/heads/" \o branch)

\* C13: if push succeeds and the remote's refname resolved to R before,
\* then R is an ancestor of L, the local oid the remote's refname holds
\* after the push.
C13_PushFastForward ==
    \A branch \in Names :
        LET refname == "refs/heads/" \o branch
            R == Resolved(refs[Other(Work)], refname)
            r == PushOf(branch)
            L == Resolved(r.rrefs, refname)
        IN  r.ok /\ R # None
            => /\ L = Resolved(refs[Work], refname)
               /\ L \in Commits(objects[Work])
               /\ R \in Ancestors(objects[Work], L)

\* A push has moved the remote's branch from one commit to a later one.
C13_Witness ==
    /\ last.op = "push" /\ last.ok /\ last.d = Work
    /\ last.ret.was # None
    /\ Resolved(refs[Other(Work)], last.ret.refname) # last.ret.was
    /\ Resolved(refs[Other(Work)], last.ret.refname)
           = Resolved(refs[Work], last.ret.refname)
    /\ last.ret.was \in Ancestors(objects[Work],
                                   Resolved(refs[Work], last.ret.refname))

\* C14: if the remote's refname resolves to R and R is not an ancestor of
\* the local oid of refname, or the local ref does not exist, push fails and
\* leaves the remote repository as it was: no object is copied to it and
\* none of its refs is modified.
C14_RefusedPushChangesNothing ==
    \A branch \in Names :
        LET refname == "refs/heads/" \o branch
            R == Resolved(refs[Other(Work)], refname)
            L == Resolved(refs[Work], refname)
            r == PushOf(branch)
        IN  (L = None \/ (R # None /\ R \notin Ancestors(objects[Work], L)))
            => /\ ~r.ok
               /\ r.robjs = objects[Other(Work)]
               /\ r.rrefs = refs[Other(Work)]

\* A push of an existing local branch has been refused because the
\* remote's branch is at a commit that is not an ancestor of the local one.
C14_Witness ==
    /\ last.op = "push" /\ ~last.ok /\ last.d = Work
    /\ last.ret.was # None
    /\ last.ret.was = Resolved(refs[Other(Work)], last.ret.refname)
    /\ Resolved(refs[Work], last.ret.refname) \in Commits(objects[Work])
    /\ last.ret.was \notin
           Ancestors(objects[Work], Resolved(refs[Work], last.ret.refname))

\* C15: push succeeds whenever the local ref exists and either the remote
\* has no refname at all, whatever other refs it has, or the remote's oid
\* of refname is an ancestor of the local one.  Stated for the remotes whose
\* ref files can all be read.
C15_PushSucceeds ==
    \A branch \in Names :
        LET refname == "refs/heads/" \o branch
            R == Resolved(refs[Other(Work)], refname)
            L == Resolved(refs[Work], refname)
        IN  /\ _get_remote_refs(refs[Other(Work)], "").ok
            /\ L \in Commits(objects[Work])
            /\ \/ refname \notin DOMAIN refs[Other(Work)]
               \/ R \in Ancestors(objects[Work], L)
            => PushOf(branch).ok

\* The oids the given refs of a ref store resolve to.
Heads(rs, names) == {Resolved(rs, ref) : ref \in names} \ {None}

\* The store has every object reachable from the given oids.
Closed(objs, oids) == Closure(objs, oids) \subseteq DOMAIN objs

\* The branch refs of a ref store.
BranchRefs(rs) == {ref \in DOMAIN rs : \E n \in Names : ref = "refs/heads/" \o n}

\* C16: if the local store is closed under reachability from the local ref
\* and the remote store under reachability from its own refs, then after a
\* successful push every object reachable from the remote's updated refname
\* (commits through all parent edges, trees, subtrees, blobs) is in the
\* remote's object store.
C16_PushTransfersClosure ==
    \A branch \in Names :
        LET refname == "refs/heads/" \o branch
            r == PushOf(branch)
        IN  /\ Closed(objects[Work], Heads(refs[Work], {refname}))
            /\ Closed(objects[Other(Work)],
                      Heads(refs[Other(Work)], DOMAIN refs[Other(Work)]))
            /\ r.ok
            => Closed(r.robjs, Heads(r.rrefs, {refname}))

\* `ugit fetch` run in d with the path of the other directory.
FetchOf(d) ==
    fetch(objects[d], refs[d], objects[Other(d)], refs[Other(d)])

\* C17: if the remote store is closed under reachability from its branch
\* refs, then after fetch completes every object reachable from each remote
\* branch head (commits through all parent edges, trees, subtrees, blobs)
\* is in the local object store, whatever was there before.
C17_FetchTransfersClosure ==
    \A d \in Dirs :
        LET heads == Heads(refs[Other(d)], BranchRefs(refs[Other(d)]))
            r == FetchOf(d)
        IN  Closed(objects[Other(d)], heads) /\ r.ok
            => Closure(objects[Other(d)], heads) \subseteq DOMAIN r.objs

\* The ref file is a direct ref holding oid.
Holds(rs, ref, oid) == ref \in DOMAIN rs /\ rs[ref] = <<oid>>

\* The ref file is the same in the two ref stores, or absent in both.
SameFile(rs1, rs2, ref) ==
    /\ ref \in DOMAIN rs1 <=> ref \in DOMAIN rs2
    /\ ref \in DOMAIN rs1 \cap DOMAIN rs2 => rs1[ref] = rs2[ref]

\* The local refs a completed fetch leaves: for every remote branch that
\* resolves to X the file refs/remote/<name> holds X, and every other ref
\* file (HEAD, MERGE_HEAD, refs/heads/*, refs/tags/*) is as before.
FetchMirrors(d) ==
    LET r == FetchOf(d)
        X(name) == Resolved(refs[Other(d)], "refs/heads/" \o name)
        mirrored == {"refs/remote/" \o name : name \in {n \in Names : X(n) # None}}
    IN  r.ok
        => /\ \A name \in Names :
                 X(name) # None
                 => Holds(r.refs, "refs/remote/" \o name, X(name))
           /\ \A ref \in (DOMAIN refs[d] \cup DOMAIN r.refs) \ mirrored :
                 SameFile(r.refs, refs[d], ref)

\* A step of fetch in d leaves the other repository as it was.
FetchLeavesRemote(d) ==
    Fetch(d) => /\ refs'[Other(d)] = refs[Other(d)]
                /\ objects'[Other(d)] = objects[Other(d)]

\* C18: after fetch completes, for every remote branch refs/heads/<name>
\* resolving to X the local ref refs/remote/<name> is a direct ref holding
\* X; fetch changes no other local ref, and the remote repository's refs
\* and objects are unchanged.
C18_FetchMirrorsBranches ==
    /\ [](\A d \in Dirs : FetchMirrors(d))
    /\ [][\A d \in Dirs : FetchLeavesRemote(d)]_vars

\* A fetch has mirrored a remote branch whose commit differs from the one
\* the local branch of the same name keeps.
C18_Witness ==
    /\ last.op = "fetch" /\ last.ok /\ last.d = Work
    /\ \E name \in Names :
           LET X == Resolved(refs[Other(Work)], "refs/heads/" \o name)
           IN  /\ X # None
               /\ Holds(refs[Work], "refs/remote/" \o name, X)
               /\ Resolved(refs[Work], "refs/heads/" \o name) \notin {None, X}

\* C19: fetch is idempotent: from any local and remote state, a second
\* fetch right after the first, however the first ended, leaves the local
\* objects and the local refs the first one left.
C19_FetchIdempotent ==
    \A d \in Dirs :
        LET once == FetchOf(d)
            twice == fetch(once.objs, once.refs, objects[Other(d)],
                           refs[Other(d)])
        IN  /\ twice.objs = once.objs
            /\ twice.refs = once.refs
            /\ twice.ok = once.ok

\* A fetch has copied the commit of a remote branch and mirrored the ref,
\* and one more fetch from here changes nothing.
C19_Witness ==
    /\ last.op = "fetch" /\ last.ok /\ last.d = Work
    /\ \E name \in Names :
           /\ "refs/remote/" \o name \in DOMAIN refs[Work]
           /\ Resolved(refs[Work], "refs/remote/" \o name)
                  \in Commits(objects[Work]) \cap Commits(objects[Other(Work)])
    /\ FetchOf(Work).objs = objects[Work]
    /\ FetchOf(Work).refs = refs[Work]

\* C20: change_git_dir restores the previous binding on every exit path:
\* after fetch or push returns or fails at any point, a failure raised
\* inside the scoped block included, GIT_DIR is what it was before the call.
C20_GitDirRestored ==
    \A d \in Dirs :
        /\ FetchOf(d).GIT_DIR = CWD_GIT_DIR
        /\ \A branch \in Names :
               push(objects[d], refs[d], objects[Other(d)], refs[Other(d)],
                    "refs/heads/" \o branch).GIT_DIR = CWD_GIT_DIR

(***************************************************************************)
(* Properties of delete_ref, the object store and the frames of commands.  *)
(***************************************************************************)
\* C21: delete_ref(refname, deref) resolves the refname, following the
\* symbolic chain only when deref is true, and removes the terminal ref
\* file: afterwards that ref is absent, and all other ref files are as
\* before.  Stated for the refs whose chain can be followed.
C21_DeleteRefRemoves ==
    \A d \in Dirs : \A ref \in DOMAIN refs[d] : \A deref \in BOOLEAN :
        LET t == _get_ref_internal(refs[d], ref, deref, 1)
            r == delete_ref(refs[d], ref, deref)
        IN  t.ok
            => /\ r.ok
               /\ t.ref \notin DOMAIN r.refs
               /\ get_ref(r.refs, t.ref, TRUE).val = RefValue(FALSE, None)
               /\ \A other \in DOMAIN refs[d] \ {t.ref} :
                      SameFile(r.refs, refs[d], other)

\* Every object file is named by the digest of its bytes.
Integrity(objs) == \A oid \in DOMAIN objs : sha1(objs[oid]) = oid

\* A step deletes no object file and changes the bytes of none.
WriteOnce ==
    \A d \in Dirs : \A oid \in DOMAIN objects[d] :
        oid \in DOMAIN objects'[d] /\ objects'[d][oid] = objects[d][oid]

\* C22: objects are write-once and never deleted: the set of oids of each
\* store only grows, the bytes under an oid never change once written, and
\* every stored object's file name is the digest of its bytes.
C22_ObjectsWriteOnce ==
    /\ [](\A d \in Dirs : Integrity(objects[d]))
    /\ [][WriteOnce]_vars

\* A push has copied a blob into a store that held objects of its own.
C22_Witness ==
    /\ last.op = "push" /\ last.ok /\ last.d = Work
    /\ \E oid \in DOMAIN objects[Other(Work)] :
           objects[Other(Work)][oid][1] = "blob"
    /\ last.ret.was \in Commits(objects[Other(Work)])

\* C23: get_working_tree() is a read-only snapshot: it returns the map
\* from every working-tree path that is not ignored to the oid its contents
\* hash to, and leaves the object store unchanged: no object file is
\* created or rewritten.
C23_GetWorkingTreeReadOnly ==
    \A d \in Dirs :
        LET r == get_working_tree(objects[d], files[d])
        IN  /\ DOMAIN r.result = {p \in DOMAIN files[d] : ~is_ignored(p)}
            /\ \A p \in DOMAIN r.result :
                   r.result[p] = sha1(<<"blob", files[d][p]>>)
            /\ r.objs = objects[d]

\* The ref files of rs2 are those of rs1 but for the file moved, which is a
\* direct ref holding oid.
MovesOnly(rs1, rs2, moved, oid) ==
    /\ Holds(rs2, moved, oid)
    /\ \A other \in (DOMAIN rs1 \cup DOMAIN rs2) \ {moved} :
           SameFile(rs2, rs1, other)

\* C24: reset(oid) sets HEAD through dereferencing and touches nothing
\* else: if HEAD is symbolic to a branch, that branch now holds oid and HEAD
\* stays symbolic; if HEAD is detached, the HEAD file holds oid; MERGE_HEAD
\* and all other refs are unchanged.  reset writes ref files only.
C24_ResetMovesHead ==
    \A d \in Dirs : \A oid \in Commits(objects[d]) :
        LET r == reset(refs[d], oid)
            branch == Target(refs[d], "HEAD")
        IN  /\ r.ok
            /\ MovesOnly(refs[d], r.refs,
                         IF branch # None THEN branch ELSE "HEAD", oid)

\* C27: commit(message) moves exactly one ref to the new commit: the
\* branch HEAD symbolically points at, HEAD itself staying symbolic, or the
\* HEAD file itself when HEAD is detached.  Every other ref (other
\* branches, tags, refs/remote/*) is unchanged, and a commit made on a
\* detached HEAD moves no branch.
C27_CommitMovesOneRef ==
    \A d \in Dirs : \A message \in Messages :
        LET r == commit(objects[d], refs[d], files[d], message)
            branch == Target(refs[d], "HEAD")
        IN  r.ok
            => MovesOnly(refs[d], r.refs,
                         IF branch # None THEN branch ELSE "HEAD", r.oid)

\* C25: during fetch the walk yields each oid before it reads the object
\* from the local store, so the object is copied before its first local
\* read: with a remote whose refs can be read and whose store is closed
\* under reachability from its branches, fetch never fails by reading an
\* object that is absent locally, and completes, even when the local store
\* starts empty.
C25_FetchReadsAfterCopy ==
    \A d \in Dirs :
        LET found == _get_remote_refs(refs[Other(d)], REMOTE_REFS_BASE)
            r == FetchOf(d)
        IN  /\ found.ok
            /\ Closed(objects[Other(d)],
                      Heads(refs[Other(d)], BranchRefs(refs[Other(d)])))
            => r.ok /\ r.err # "FileNotFoundError"

\* A fetch into the repository that started empty and was never pushed to
\* has completed, and has brought a commit with a parent and a blob.
C25_Witness ==
    /\ last.op = "fetch" /\ last.ok /\ last.d = Other(Work)
    /\ BranchRefs(refs[Other(Work)]) = {}
    /\ \E oid \in Commits(objects[Other(Work)]) :
           get_commit(objects[Other(Work)], oid).parents # <<>>
    /\ \E oid \in DOMAIN objects[Other(Work)] :
           objects[Other(Work)][oid][1] = "blob"

\* C26: if merge(other) fails, because other and HEAD have no common
\* ancestor or because the three-way merge of the trees raises, it leaves
\* the repository as it was: HEAD and MERGE_HEAD (every ref file) are
\* unchanged and the working tree holds the files it held before.
C26_FailedMergeChangesNothing ==
    \A d \in Dirs : \A other \in Commits(objects[d]) :
        LET r == merge(objects[d], refs[d], files[d], other)
        IN  ~r.ok => r.refs = refs[d] /\ r.files = files[d]

\* C28: after any sequence of commands, their arguments resolved by
\* get_oid, every ref that resolves to an oid (HEAD, MERGE_HEAD,
\* refs/heads/*, refs/tags/*, refs/remote/*) names a commit object that is
\* in the local object store.
C28_RefsNameStoredCommits ==
    \A d \in Dirs : \A ref \in DOMAIN refs[d] :
        Resolved(refs[d], ref) # None
        => Resolved(refs[d], ref) \in Commits(objects[d])

====
